---- MODULE Spec2Model ----
(***************************************************************************)
(* State-machine model of the data-access clients:                         *)
(*   GoogleDriveClient (src/data_access/sources/google_drive.py)           *)
(*   S3Client          (src/data_access/sources/s3.py)                     *)
(* The vendor SDKs (Drive API, boto3, pandas) are the environment: what    *)
(* they answer is drawn from bounded sets, what the clients ask of them is *)
(* recorded call by call.                                                  *)
(***************************************************************************)
EXTENDS Integers, Sequences, FiniteSets, TLC

\* ------------------------------------------------------------------ bounds
\* files visible to the service account
MaxItems == 2
\* chunks the provider cuts a file's content into
MaxChunks == 3
\* rows of the table handed to S3Client.write
MaxRows == 2

\* ------------------------------------------------------------ Python values
\* Python's None, and a key that a dict does not carry
None == "None"
NoKey == "NoKey"
\* no exception raised
NoError == ""

FileNames == {"f", "g"}
Ids == {"a", "b"}
\* filenames a caller may ask for (any str, the empty one included)
RequestedNames == FileNames \cup {""}

\* one entry of a listing, projected by fields="files(id, name)"; either key
\* may be missing, which is why the code reads both through dict.get
Entries == [name : {"f", NoKey}, id : Ids \cup {NoKey}]

\* dict.get(key, default)
ItemGet(item, key, default) == IF item[key] = NoKey THEN default ELSE item[key]

SeqsUpTo(S, n) == UNION {[1..k -> S] : k \in 0..n}

\* results.get("files", [])
ResultsGet(results) == IF results.has_files THEN results.files ELSE <<>>

\* ------------------------------------------------------------------- state
VARIABLES
  file_id,      \* GoogleDriveClient.file_id: None or an identifier
  drive,        \* provider: [files: the visible entries in provider order,
                \*   page: how many of them the first page carries,
                \*   has_files: whether the answer's dict has a "files" key]
  content,      \* provider: the file's content, as the chunks it is delivered in
  disk,         \* local file written by download(): <<>> or <<[name, data]>>
  last,         \* the most recent GoogleDriveClient operation and its outcome
  set_by,       \* history: what last assigned file_id ("__init__" or "get_file_id")
  s3_options,   \* S3Client.io_options
  table,        \* the dataframe the caller hands to S3Client.write
  store,        \* object store: set of [Bucket, Key, Body]
  s3_last       \* the most recent S3Client.write and its outcome

drive_vars == <<file_id, drive, content, disk, last, set_by>>
s3_vars == <<s3_options, table, store, s3_last>>
vars == <<file_id, drive, content, disk, last, set_by, s3_options, table, store, s3_last>>

\* ------------------------------------------------------ GoogleDriveClient
\* a remote call as the client issues it
Call(api, fileId) == [api |-> api, fileId |-> fileId]

\* the record kept of an operation
Outcome(op, arg, raised, calls, ret) ==
  [op |-> op, arg |-> arg, pre |-> file_id, raised |-> raised, calls |-> calls, ret |-> ret]

\* what .execute() of a files().get() can come back with: the field's value,
\* a dict without the field, or a provider error
ExecuteOutcomes == {"ok", "absent", "error"}

\* mutant of scan: the last entry of the name wins instead of the first
RECURSIVE scan_last(_, _, _)
scan_last(items, filename, i) ==
  IF i > Len(items) THEN 0
  ELSE LET later == scan_last(items, filename, i + 1)
       IN IF later > 0 THEN later
          ELSE IF ItemGet(items[i], "name", "") = filename THEN i ELSE 0

\* for item in items: if item.get("name", "") == filename: ... return
\* index of the entry the loop stops at, 0 when it runs to the end
RECURSIVE scan(_, _, _)
scan(items, filename, i) ==
  IF i > Len(items) THEN 0
  ELSE IF ItemGet(items[i], "name", "") = filename THEN i
  ELSE scan(items, filename, i + 1)

\* mutant of lookup: an empty listing clears the identifier
lookup_empty_clears(fid, filename, results) ==
  LET items == ResultsGet(results)
      i == scan(items, filename, 1)
  IN IF items = <<>> THEN [file_id |-> None, raised |-> "ValueError: No files found"]
     ELSE IF i > 0 THEN [file_id |-> ItemGet(items[i], "id", None), raised |-> NoError]
     ELSE [file_id |-> fid, raised |-> "ValueError: Could not find file"]

\* mutant of lookup: a failed search clears the identifier
lookup_notfound_clears(fid, filename, results) ==
  LET items == ResultsGet(results)
      i == scan(items, filename, 1)
  IN IF items = <<>> THEN [file_id |-> fid, raised |-> "ValueError: No files found"]
     ELSE IF i > 0 THEN [file_id |-> ItemGet(items[i], "id", None), raised |-> NoError]
     ELSE [file_id |-> None, raised |-> "ValueError: Could not find file"]

\* get_file_id after the listing came back: [file_id, raised]
lookup(fid, filename, results) ==
  LET items == ResultsGet(results)
      i == scan(items, filename, 1)
  IN IF items = <<>> THEN [file_id |-> fid, raised |-> "ValueError: No files found"]
     ELSE IF i > 0 THEN [file_id |-> ItemGet(items[i], "id", None), raised |-> NoError]
     ELSE [file_id |-> fid, raised |-> "ValueError: Could not find file"]

\* mutant of listed: the pages are followed to the end
listed_all_pages(provider) ==
  [has_files |-> provider.has_files \/ provider.files # <<>>, files |-> provider.files]

\* the answer get_file_id reads: one files().list().execute(), no pageToken
\* follow-up, so the first page only
listed(provider) ==
  [has_files |-> provider.has_files, files |-> SubSeq(provider.files, 1, provider.page)]

get_file_id(filename) ==
  \E ok \in BOOLEAN :
    LET calls == <<Call("files.list", None)>>
        r == lookup(file_id, filename, listed(drive))
    IN /\ file_id' = IF ok THEN r.file_id ELSE file_id
       /\ last' = Outcome("get_file_id", filename,
                          IF ok THEN r.raised ELSE "HttpError", calls, <<>>)
       /\ set_by' = IF ok /\ r.raised = NoError THEN "get_file_id" ELSE set_by
       /\ UNCHANGED <<drive, content, disk, s3_vars>>

\* str(self.client.files().get(fileId=self.file_id, fields=...).execute().get(field))
metadata(op, field) ==
  \E out \in ExecuteOutcomes :
    /\ last' = Outcome(op, field,
                       IF out = "error" THEN "HttpError" ELSE NoError,
                       <<Call("files.get", file_id)>>,
                       IF out = "ok" THEN <<"value">>
                       ELSE IF out = "absent" THEN <<"None">> ELSE <<>>)
    /\ UNCHANGED <<file_id, drive, content, disk, set_by, s3_vars>>

source_created_at == metadata("source_created_at", "createdTime")

source_updated_at == metadata("source_updated_at", "modifiedTime")

source_filename == metadata("source_filename", "name")

source_uri == metadata("source_uri", "webViewLink")

\* MediaIoBaseDownload.next_chunk, the k-th call (k >= 1): the chunk written
\* to the stream, the progress reported and the completion signal
next_chunk(chunks, k) ==
  [data |-> chunks[k], done |-> (k = Len(chunks)), progress |-> (100 * k) \div Len(chunks)]

\* mutant of download_loop: the loop also ends after two iterations
RECURSIVE download_loop_fixed(_, _, _)
download_loop_fixed(chunks, k, stream) ==
  LET c == next_chunk(chunks, k + 1)
      s == stream \o c.data
  IN IF c.done \/ k + 1 >= 2 THEN [stream |-> s, n |-> k + 1, pbar |-> c.progress]
     ELSE download_loop_fixed(chunks, k + 1, s)

\* while not done: status, done = downloader.next_chunk(); pbar.update(...)
\* k calls made so far, none of them done
RECURSIVE download_loop(_, _, _)
download_loop(chunks, k, stream) ==
  LET c == next_chunk(chunks, k + 1)
      s == stream \o c.data
  IN IF c.done THEN [stream |-> s, n |-> k + 1, pbar |-> c.progress]
     ELSE download_loop(chunks, k + 1, s)

RECURSIVE Repeat(_, _)
Repeat(x, n) == IF n = 0 THEN <<>> ELSE <<x>> \o Repeat(x, n - 1)

\* mutant of stream_of: the file_id check is missing
stream_of_unguarded(fid, chunks) ==
  LET d == download_loop(chunks, 0, <<>>)
  IN [raised |-> NoError,
      calls |-> <<Call("files.get_media", fid)>> \o Repeat(Call("next_chunk", fid), d.n),
      stream |-> d.stream, pbar |-> d.pbar]

\* _stream(): [raised, calls, stream, pbar]
stream_of(fid, chunks) ==
  IF fid = None
  THEN [raised |-> "ValueError: No file_id set", calls |-> <<>>, stream |-> <<>>, pbar |-> 0]
  ELSE LET d == download_loop(chunks, 0, <<>>)
       IN [raised |-> NoError,
           calls |-> <<Call("files.get_media", fid)>> \o Repeat(Call("next_chunk", fid), d.n),
           stream |-> d.stream, pbar |-> d.pbar]

stream ==
  LET s == stream_of(file_id, content)
  IN /\ last' = Outcome("_stream", "", s.raised, s.calls, s.stream)
     /\ UNCHANGED <<file_id, drive, content, disk, set_by, s3_vars>>

\* read(): stream = self._stream(); stream.seek(0); pd.read_csv(stream, ...)
\* the parser either yields a dataframe of the bytes or raises
read ==
  \E parsed \in BOOLEAN :
    LET s == stream_of(file_id, content)
    IN /\ last' = IF s.raised # NoError
                  THEN Outcome("read", "", s.raised, s.calls, <<>>)
                  ELSE IF parsed
                  THEN Outcome("read", "", NoError, s.calls, <<"DataFrame">> \o s.stream)
                  ELSE Outcome("read", "", "ParserError", s.calls, <<>>)
       /\ UNCHANGED <<file_id, drive, content, disk, set_by, s3_vars>>

\* the name the provider reports for the file
RemoteName == "f"

\* download(): the name is fetched first, then the content, then the file is
\* written (io.open(None) raises TypeError)
download ==
  \E out \in ExecuteOutcomes :
    LET get == <<Call("files.get", file_id)>>
        s == stream_of(file_id, content)
    IN IF out = "error"
       THEN /\ last' = Outcome("download", "", "HttpError", get, <<>>)
            /\ UNCHANGED <<file_id, drive, content, disk, set_by, s3_vars>>
       ELSE IF s.raised # NoError
       THEN /\ last' = Outcome("download", "", s.raised, get \o s.calls, <<>>)
            /\ UNCHANGED <<file_id, drive, content, disk, set_by, s3_vars>>
       ELSE IF out = "absent"
       THEN /\ last' = Outcome("download", "", "TypeError", get \o s.calls, <<>>)
            /\ UNCHANGED <<file_id, drive, content, disk, set_by, s3_vars>>
       ELSE /\ last' = Outcome("download", RemoteName, NoError, get \o s.calls, <<>>)
            /\ disk' = <<[name |-> RemoteName, data |-> s.stream]>>
            /\ UNCHANGED <<file_id, drive, content, set_by, s3_vars>>

\* the provider's worlds: every listing with a one-chunk file, and every
\* chunking of a file with a one-entry listing
Chunks == {<<"x">>, <<"y", "x">>}
Contents == SeqsUpTo(Chunks, MaxChunks) \ {<<>>}
Listings ==
  {l \in [files : SeqsUpTo(Entries, MaxItems), page : 0..MaxItems, has_files : BOOLEAN] :
     /\ l.page <= Len(l.files)
     /\ l.has_files \/ l.files = <<>>}
OneListing == [files |-> <<[name |-> "f", id |-> "a"]>>, page |-> 1, has_files |-> TRUE]
OneContent == <<<<"x">>>>
NoOutcome == [op |-> "__init__", arg |-> "", pre |-> None, raised |-> NoError, calls |-> <<>>, ret |-> <<>>]

\* ---------------------------------------------------------------- S3Client
\* the tables a caller holds: one or two distinctly named columns, a
\* RangeIndex, single-digit integer cells
Columns == {<<"a">>, <<"b">>, <<"a", "b">>, <<"b", "a">>}
Cells == {1, 2}
Tables ==
  UNION {[columns : {c}, rows : SeqsUpTo([1..Len(c) -> Cells], MaxRows)] : c \in Columns}

\* io_options as the constructor stores it (None or {} gives {}); of the
\* keywords DataFrame.to_csv takes, "index" is modelled
S3Options == [index : {NoKey, "True", "False"}]

Buckets == {"b1", "b2"}
Keys == {"k1", "k2"}

\* str(n) of a single-digit integer, as characters
Digits == <<"0", "1", "2", "3", "4", "5", "6", "7", "8", "9">>
Str(n) == <<Digits[n + 1]>>

\* fields joined by the separator
RECURSIVE Join(_)
Join(fields) ==
  IF fields = <<>> THEN <<>>
  ELSE IF Len(fields) = 1 THEN fields[1]
  ELSE fields[1] \o <<",">> \o Join(Tail(fields))

\* the lines of DataFrame.to_csv for rows i..Len(rows)
RECURSIVE csv_rows(_, _, _)
csv_rows(rows, i, index) ==
  IF i > Len(rows) THEN <<>>
  ELSE Join((IF index THEN <<Str(i - 1)>> ELSE <<>>) \o [k \in 1..Len(rows[i]) |-> Str(rows[i][k])])
       \o <<"\n">> \o csv_rows(rows, i + 1, index)

\* df.to_csv(**io_options): the text, as characters; index defaults to True,
\* which writes the row labels as a first column under an empty header
to_csv(df, options) ==
  LET index == ItemGet(options, "index", "True") = "True"
      header == (IF index THEN <<<<>>>> ELSE <<>>) \o [k \in 1..Len(df.columns) |-> <<df.columns[k]>>]
  IN Join(header) \o <<"\n">> \o csv_rows(df.rows, 1, index)

\* self.client.put_object(Bucket=bucket, Key=filename, Body=csv_buffer)
put_object(objects, bucket, key, body) ==
  {o \in objects : ~(o.Bucket = bucket /\ o.Key = key)}
    \cup {[Bucket |-> bucket, Key |-> key, Body |-> body]}

\* mutant of write: a rejected put is tried once more
write_retry(bucket, filename) ==
  \E put_ok \in BOOLEAN, again_ok \in BOOLEAN :
    LET csv_buffer == to_csv(table, s3_options)
        put == [Bucket |-> bucket, Key |-> filename, Body |-> csv_buffer]
        stored == put_ok \/ again_ok
    IN /\ store' = IF stored THEN put_object(store, bucket, filename, csv_buffer) ELSE store
       /\ s3_last' = [op |-> "write", bucket |-> bucket, filename |-> filename,
                      put_ok |-> <<put_ok>>, puts |-> IF put_ok THEN <<put>> ELSE <<put, put>>,
                      raised |-> IF stored THEN NoError ELSE "ClientError"]
       /\ UNCHANGED <<s3_options, table, drive_vars>>

\* S3Client.write(df, bucket, filename); the put succeeds or the provider
\* rejects it
write(bucket, filename) ==
  \E put_ok \in BOOLEAN :
    LET csv_buffer == to_csv(table, s3_options)
        put == [Bucket |-> bucket, Key |-> filename, Body |-> csv_buffer]
    IN /\ store' = IF put_ok THEN put_object(store, bucket, filename, csv_buffer) ELSE store
       /\ s3_last' = [op |-> "write", bucket |-> bucket, filename |-> filename,
                      put_ok |-> <<put_ok>>, puts |-> <<put>>,
                      raised |-> IF put_ok THEN NoError ELSE "ClientError"]
       /\ UNCHANGED <<s3_options, table, drive_vars>>

S3NoOutcome ==
  [op |-> "__init__", bucket |-> "", filename |-> "", put_ok |-> <<>>, puts |-> <<>>, raised |-> NoError]

S3Idle ==
  /\ s3_options = [index |-> NoKey]
  /\ table = [columns |-> <<"a">>, rows |-> <<>>]
  /\ store = {}
  /\ s3_last = S3NoOutcome

\* GoogleDriveClient(file_id=None | id)
Init ==
  /\ file_id \in {None} \cup Ids
  /\ \/ drive \in Listings /\ content = OneContent
     \/ drive = OneListing /\ content \in Contents
  /\ disk = <<>>
  /\ last = NoOutcome
  /\ set_by = "__init__"
  /\ S3Idle

Next ==
  \/ \E filename \in RequestedNames : get_file_id(filename)
  \/ source_created_at
  \/ source_updated_at
  \/ source_filename
  \/ source_uri
  \/ stream
  \/ read
  \/ download

Spec == Init /\ [][Next]_vars

\* S3Client(io_options) and the table its caller writes
InitS3 ==
  /\ file_id = None
  /\ drive = OneListing
  /\ content = OneContent
  /\ disk = <<>>
  /\ last = NoOutcome
  /\ set_by = "__init__"
  /\ s3_options \in S3Options
  /\ table \in Tables
  /\ store = {}
  /\ s3_last = S3NoOutcome

NextS3 == \E bucket \in Buckets, filename \in Keys : write(bucket, filename)

SpecS3 == InitS3 /\ [][NextS3]_vars

\* ------------------------------------------------------------ the claims
Unset == "ValueError: No file_id set"
NoFilesFound == "ValueError: No files found"
CouldNotFind == "ValueError: Could not find file"

MetadataOps == {"source_created_at", "source_updated_at", "source_filename", "source_uri"}

\* the listing the provider returned to the call: its first page
FirstPage == SubSeq(drive.files, 1, drive.page)

\* an entry's name and id as get_file_id reads them: an entry without a
\* "name" key is read as named "", one without an "id" key has id None
EntryName(e) == IF e.name = NoKey THEN "" ELSE e.name
EntryId(e) == IF e.id = NoKey THEN None ELSE e.id

\* positions in a listing of the entries named as the last call asked
Matches(items) == {i \in 1..Len(items) : EntryName(items[i]) = last.arg}
First(S) == CHOOSE i \in S : \A j \in S : i <= j

\* get_file_id ran and the provider answered its listing request
Looked == last.op = "get_file_id" /\ last.raised # "HttpError"

\* C1: with file_id unset, a metadata property or download() fails with the
\* "no identifier set" error and issues no remote call.
C1_UnsetMetadataFailsWithoutRemoteCall ==
  (last.op \in MetadataOps \cup {"download"} /\ last.pre = None)
    => (last.raised = Unset /\ last.calls = <<>>)

\* C2: with file_id unset, read() and _stream() fail with the "No file_id set"
\* ValueError, no get_media request is built, next_chunk is never called, and
\* nothing is returned.
C2_UnsetStreamFailsBeforeRequest ==
  (last.op \in {"read", "_stream"} /\ last.pre = None)
    => (last.raised = Unset /\ last.calls = <<>> /\ last.ret = <<>>)

C2_Witness == last.op = "read" /\ last.pre = None /\ last.raised = Unset

\* C3: when the returned listing has an entry named as requested,
\* get_file_id returns normally and file_id is the id of the first such entry
\* in provider order, whatever file_id was before.
C3_FirstMatchWins ==
  (Looked /\ Matches(FirstPage) # {})
    => (last.raised = NoError /\ file_id = EntryId(FirstPage[First(Matches(FirstPage))]))

C3_Witness ==
  /\ Looked
  /\ Cardinality(Matches(FirstPage)) >= 2
  /\ \E i, j \in Matches(FirstPage) : FirstPage[i].id # FirstPage[j].id
  /\ last.pre \in Ids
  /\ file_id \in Ids
  /\ file_id # last.pre

\* C4: when no file is visible (no "files" key, or an empty list),
\* get_file_id fails with "No files found" for every filename and file_id is
\* what it was before the call.
C4_EmptyListingFailsAndKeepsFileId ==
  (Looked /\ drive.files = <<>>)
    => (last.raised = NoFilesFound /\ file_id = last.pre)

C4_Witness ==
  /\ Looked
  /\ drive.files = <<>>
  /\ ~drive.has_files
  /\ last.pre \in Ids
  /\ last.raised = NoFilesFound

\* C5: when the returned listing is non-empty and no entry is named as
\* requested, get_file_id fails with "Could not find file" and a file_id set
\* before (by the constructor or by an earlier lookup) is unchanged.
C5_NotFoundKeepsFileId ==
  (Looked /\ FirstPage # <<>> /\ Matches(FirstPage) = {})
    => (last.raised = CouldNotFind /\ last.raised # NoFilesFound /\ file_id = last.pre)

C5_Witness ==
  /\ Looked
  /\ FirstPage # <<>>
  /\ Matches(FirstPage) = {}
  /\ set_by = "get_file_id"
  /\ file_id \in Ids
  /\ last.raised = CouldNotFind

\* the chunks of a file, concatenated in order
RECURSIVE Flatten(_)
Flatten(chunks) == IF chunks = <<>> THEN <<>> ELSE Head(chunks) \o Flatten(Tail(chunks))

NextChunkCalls(calls) == Cardinality({i \in 1..Len(calls) : calls[i].api = "next_chunk"})

\* C6: with file_id set, for a provider that delivers the content in N chunks
\* and signals done on the N-th, _stream() makes exactly N next_chunk calls,
\* ends, and returns the N chunks concatenated in order.
C6_StreamsUntilDone ==
  (last.op = "_stream" /\ last.pre # None)
    => /\ last.raised = NoError
       /\ NextChunkCalls(last.calls) = Len(content)
       /\ last.ret = Flatten(content)

C6_Witness ==
  /\ last.op = "_stream"
  /\ last.pre # None
  /\ Len(content) >= 3
  /\ Len(last.ret) > Len(content)

\* C7: once file_id holds an identifier, no operation makes it None again.
C7_FileIdNeverUnsetAgain == [][file_id # None => file_id' # None]_vars

\* C8: write() calls put_object exactly once, with the bucket and key given
\* and the serialized table as body; a failing put propagates and is not
\* retried.
C8_SinglePutNoRetry ==
  s3_last.op = "write"
    => /\ Len(s3_last.puts) = 1
       /\ s3_last.puts[1].Bucket = s3_last.bucket
       /\ s3_last.puts[1].Key = s3_last.filename
       /\ s3_last.puts[1].Body = to_csv(table, s3_options)
       /\ (s3_last.put_ok = <<FALSE>> => s3_last.raised = "ClientError")
       /\ (s3_last.put_ok = <<TRUE>> =>
             [Bucket |-> s3_last.bucket, Key |-> s3_last.filename,
              Body |-> to_csv(table, s3_options)] \in store)

C8_Witness ==
  /\ s3_last.op = "write"
  /\ s3_last.put_ok = <<FALSE>>
  /\ s3_last.bucket = "b2"
  /\ s3_last.filename = "k1"
  /\ Len(table.rows) >= 1
  /\ \A o \in store : ~(o.Bucket = "b2" /\ o.Key = "k1")

\* an independent parse of delimited text: pieces of a character sequence
\* between separators
RECURSIVE Split(_, _, _)
Split(text, sep, piece) ==
  IF text = <<>> THEN <<piece>>
  ELSE IF Head(text) = sep THEN <<piece>> \o Split(Tail(text), sep, <<>>)
  ELSE Split(Tail(text), sep, Append(piece, Head(text)))

Lines(text) ==
  LET pieces == Split(text, "\n", <<>>)
  IN SubSeq(pieces, 1, Len(pieces) - 1)

Unnamed == <<"Unnamed: 0", "Unnamed: 1", "Unnamed: 2">>
ColumnName(field, k) == IF field = <<>> THEN Unnamed[k] ELSE field[1]
Digit(field) == CHOOSE n \in 0..9 : Digits[n + 1] = field[1]

\* read_csv: the first line names the columns (an empty name becomes
\* "Unnamed: k"), every other line is a row of integers
read_csv(text) ==
  LET lines == Lines(text)
      header == Split(lines[1], ",", <<>>)
  IN [columns |-> [k \in 1..Len(header) |-> ColumnName(header[k], k)],
      rows |-> [i \in 1..(Len(lines) - 1) |->
                  LET fields == Split(lines[i + 1], ",", <<>>)
                  IN [k \in 1..Len(fields) |-> Digit(fields[k])]]]

\* C9: parsing the payload that write() placed in the object store gives back
\* the table's rows and columns, none added or lost.
C9_RoundTrip == \A o \in store : read_csv(o.Body) = table

\* positions of the visible files named as requested that lie on later pages
LaterMatches == {i \in Matches(drive.files) : i > drive.page}

\* C10 as stated: a visible file of the requested name is found on whichever
\* page it is, and "file not found" means that no visible file has the name.
C10_FindsAnyVisibleFile ==
  LET visible == {i \in 1..Len(drive.files) : drive.files[i].name = last.arg}
  IN Looked
       => /\ (visible # {} => last.raised = NoError /\ file_id = EntryId(drive.files[First(visible)]))
          /\ (last.raised = CouldNotFind => visible = {})

\* C10 amended: get_file_id reads the first page of the listing only. It
\* succeeds exactly when the first page has an entry of the requested name;
\* when the visible files of that name are all on later pages it fails
\* ("Could not find file", or "No files found" if the first page is empty)
\* and file_id is unchanged.
C10_FindsFirstPageOnly ==
  Looked
    => /\ (Matches(FirstPage) # {} <=> last.raised = NoError)
       /\ (LaterMatches # {} /\ Matches(FirstPage) = {}
             => /\ last.raised = IF FirstPage = <<>> THEN NoFilesFound ELSE CouldNotFind
                /\ file_id = last.pre)

C10_Witness ==
  /\ Looked
  /\ LaterMatches # {}
  /\ FirstPage # <<>>
  /\ Matches(FirstPage) = {}
  /\ last.raised = CouldNotFind

====
